---------------------------- MODULE Spec2Model ----------------------------
(***************************************************************************)
(* Model of data_utility/scripts/generate_speaker_trials.py:               *)
(*   - WavAudioDataSampleTrialAggregator (__call__, get_gender_mapping),   *)
(*   - generate_speaker_trials with _samples_per_speaker, _positive_pairs, *)
(*     _negative_pairs and the loop of _exhaust_pairs_iterator_dictionary. *)
(*                                                                         *)
(* Sample ids and speaker ids are strings in the program.  They are        *)
(* modelled by the integers 1..n, the integer being the rank of the string *)
(* in Python's string order, so that sorted() is the integer order.        *)
(* Dictionary keys of the scheduler are tuples: <<s>> for the speaker s of *)
(* the positive pass, <<k1, k2>> for a speaker pair of the negative pass.  *)
(***************************************************************************)
EXTENDS Integers, Sequences, FiniteSets, TLC

(***************************************************************************)
(* Bounds of the model.                                                    *)
(***************************************************************************)
MaxSamples == 5

MaxSpeakers == 3

MaxLimit == 6

MaxKeys == 3

MaxAggSpeakers == 2

MaxSeed == 2

\* samples of the inputs of the specification with fairness
MaxFairSamples == 4

VARIABLES
    \* WavAudioDataSampleTrialAggregator
    speaker_ids,
    sample_ids,
    map_sample_id_to_speaker_id,
    map_speaker_id_to_gender,
    ag_result,
    \* history: the samples __call__ accepted, and whether get_gender_mapping ran
    observed,
    mapping_called,
    \* generate_speaker_trials: arguments
    map_speaker_to_gender,
    ensure_same_sex_trials,
    limit_num_trials,
    \* generate_speaker_trials: locals and position
    pc,
    samples_per_speaker,
    pos_pairs,
    trials,
    error,
    \* _exhaust_pairs_iterator_dictionary: locals
    generators,
    pairs,
    key_queue,
    \* history of the running pass: pairs yielded per key, calls of next(),
    \* and the keys popped since the queue was last filled
    yielded,
    pulls,
    visited

ag_vars == <<speaker_ids, sample_ids, map_sample_id_to_speaker_id,
             map_speaker_id_to_gender, ag_result, observed, mapping_called>>

arg_vars == <<map_speaker_to_gender, ensure_same_sex_trials, limit_num_trials>>

gen_vars == <<pc, samples_per_speaker, pos_pairs, trials, error,
              generators, pairs, key_queue, yielded, pulls, visited>>

vars == <<ag_vars, arg_vars, gen_vars>>

(***************************************************************************)
(* Values.                                                                 *)
(***************************************************************************)
\* Optional[int]: None is the empty tuple, the integer n is <<n>>.
None == <<>>

Some(n) == <<n>>

\* x.speaker_id is None
NoSpeaker == 0

\* x.gender is None
NoGender == "None"

\* the two values get_gender_mapping accepts, and one it does not
RecognizedGenders == {"f", "m"}

Genders == RecognizedGenders \cup {"x"}

Range(f) == {f[x] : x \in DOMAIN f}

Restrict(f, S) == [x \in S |-> f[x]]

Min2(a, b) == IF a <= b THEN a ELSE b

\* the permutations of a finite set, as sequences: the orders in which a
\* Python set can be iterated
RECURSIVE Perms(_)
Perms(S) ==
    IF S = {} THEN {<<>>}
    ELSE UNION {{<<x>> \o p : p \in Perms(S \ {x})} : x \in S}

(***************************************************************************)
(* sorted() on tuples of integers: Python's lexicographic order.           *)
(***************************************************************************)
KeyLess(a, b) ==
    \/ \E i \in 1..Min2(Len(a), Len(b)) :
          /\ a[i] < b[i]
          /\ \A j \in 1..(i - 1) : a[j] = b[j]
    \/ /\ Len(a) < Len(b)
       /\ \A j \in 1..Len(a) : a[j] = b[j]

\* a faulty sort: the greatest key first
RECURSIVE SortedKeysDescending(_)
SortedKeysDescending(K) ==
    IF K = {} THEN <<>>
    ELSE LET m == CHOOSE x \in K : \A y \in K \ {x} : KeyLess(y, x)
         IN  <<m>> \o SortedKeysDescending(K \ {m})

\* sorted(keys): ascending
RECURSIVE SortedKeys(_)
SortedKeys(K) ==
    IF K = {} THEN <<>>
    ELSE LET m == CHOOSE x \in K : \A y \in K \ {x} : KeyLess(x, y)
         IN  <<m>> \o SortedKeys(K \ {m})

\* the samples in sorted order: one of the orders a set can be iterated in
RECURSIVE SortedSamples(_)
SortedSamples(S) ==
    IF S = {} THEN <<>>
    ELSE LET m == CHOOSE x \in S : \A y \in S : x <= y
         IN  <<m>> \o SortedSamples(S \ {m})

(***************************************************************************)
(* _samples_per_speaker: iterates the set `samples` in the order `order`   *)
(* and appends each sample to the list of its speaker (a defaultdict: only *)
(* speakers with a sample are keys).                                       *)
(***************************************************************************)
SamplesPerSpeaker(order, map_sample_to_speaker) ==
    [s \in {map_sample_to_speaker[x] : x \in Range(order)} |->
        SelectSeq(order, LAMBDA x : map_sample_to_speaker[x] = s)]

(***************************************************************************)
(* itertools.combinations(v, r=2) and itertools.product(v1, v2), as the    *)
(* sequence of tuples the iterator yields.                                 *)
(***************************************************************************)
\* a faulty combinations: only the pairs of neighbours in the list
CombinationsOfNeighbours(v) ==
    [j \in 1..(Len(v) - 1) |-> <<v[j], v[j + 1]>>]

RECURSIVE Combinations(_)
Combinations(v) ==
    IF Len(v) < 2 THEN <<>>
    ELSE [j \in 1..(Len(v) - 1) |-> <<v[1], v[j + 1]>>] \o Combinations(Tail(v))

RECURSIVE Product(_, _)
Product(v1, v2) ==
    IF v1 = <<>> THEN <<>>
    ELSE [j \in 1..Len(v2) |-> <<v1[1], v2[j]>>] \o Product(Tail(v1), v2)

\* _positive_pairs: one generator per speaker
PositiveGenerators(sps) ==
    [k \in {<<s>> : s \in DOMAIN sps} |-> Combinations(sps[k[1]])]

\* a faulty speaker_pair_set: the gender test is applied whatever the flag
SpeakerPairSetAlwaysSameSex(sps, same_sex, gender_map) ==
    {kk \in (DOMAIN sps) \X (DOMAIN sps) :
        kk[1] < kk[2] /\ gender_map[kk[1]] = gender_map[kk[2]]}

\* a faulty speaker_pair_set: the two speakers are not sorted, so that a
\* combination is kept in both orders
SpeakerPairSetBothOrders(sps, same_sex, gender_map) ==
    {kk \in (DOMAIN sps) \X (DOMAIN sps) :
        ~(kk[1] = kk[2] \/ (same_sex /\ gender_map[kk[1]] # gender_map[kk[2]]))}

\* _negative_pairs: the speaker combinations, tuple(sorted([k1, k2]))
SpeakerPairSet(sps, same_sex, gender_map) ==
    {IF k1 < k2 THEN <<k1, k2>> ELSE <<k2, k1>> :
        <<k1, k2>> \in {kk \in (DOMAIN sps) \X (DOMAIN sps) :
            ~(kk[1] = kk[2] \/ (same_sex /\ gender_map[kk[1]] # gender_map[kk[2]]))}}

\* faulty generators: one per pair of distinct speakers, whatever the genders
NegativeGeneratorsAnySex(sps, same_sex, gender_map) ==
    [k \in {kk \in (DOMAIN sps) \X (DOMAIN sps) : kk[1] < kk[2]} |->
        Product(sps[k[1]], sps[k[2]])]

\* _negative_pairs: one generator per speaker combination
NegativeGenerators(sps, same_sex, gender_map) ==
    [k \in SpeakerPairSet(sps, same_sex, gender_map) |-> Product(sps[k[1]], sps[k[2]])]


(***************************************************************************)
(* Errors.  Every raise of the program is a record: its kind, and the      *)
(* identifiers its message carries.                                        *)
(***************************************************************************)
NoError == [kind |-> "none", ids |-> {}]

\* raise ValueError("duplicate entry")
DuplicatePairError == [kind |-> "DuplicatePairError", ids |-> {}]

\* generators[key] with a key that is no longer in the dictionary
KeyLookupError == [kind |-> "KeyError", ids |-> {}]

\* key_queue.pop() on an empty list
EmptyPopError == [kind |-> "IndexError", ids |-> {}]

(***************************************************************************)
(* _exhaust_pairs_iterator_dictionary.                                     *)
(* A generator is the sequence of tuples it has still to yield; next()     *)
(* takes the head, and returns None on the empty sequence.                 *)
(***************************************************************************)
\* a faulty continue_loop: `<=` for `<`
ContinueLoopInclusive(gens, prs, limit) ==
    IF limit = None
    THEN Cardinality(DOMAIN gens) > 0
    ELSE Cardinality(DOMAIN gens) > 0 /\ Cardinality(prs) <= limit[1]

\* a faulty test: with a limit set the generators are not looked at
ContinueLoopLimitOnly(gens, prs, limit) ==
    IF limit = None
    THEN Cardinality(DOMAIN gens) > 0
    ELSE Cardinality(prs) < limit[1]

\* continue_loop()
ContinueLoop(gens, prs, limit) ==
    IF limit = None
    THEN Cardinality(DOMAIN gens) > 0
    ELSE Cardinality(DOMAIN gens) > 0 /\ Cardinality(prs) < limit[1]

\* a faulty refill: the queue is sorted anew in every iteration
RefillAlways(gens, queue) == SortedKeys(DOMAIN gens)

\* a faulty refill: the queue is filled with every key twice
RefillTwice(gens, queue) ==
    IF Len(queue) = 0
    THEN SortedKeys(DOMAIN gens) \o SortedKeys(DOMAIN gens)
    ELSE queue

\* `if len(key_queue) == 0: key_queue = sorted(generators.keys())`
Refill(gens, queue) ==
    IF Len(queue) = 0 THEN SortedKeys(DOMAIN gens) ELSE queue

\* `key = key_queue.pop()`: the last element
PoppedKey(gens, queue) ==
    LET q == Refill(gens, queue) IN q[Len(q)]

\* a faulty removal: the dictionary is left as it is
DelKeyNothing(gens, key) == gens

\* `del generators[key]`
DelKey(gens, key) == Restrict(gens, (DOMAIN gens) \ {key})

\* one iteration of the while loop
ExhaustStep(gens, prs, queue) ==
    LET q == Refill(gens, queue)
        stay == [generators |-> gens, pairs |-> prs, key_queue |-> q,
                 error |-> NoError, pulled |-> FALSE, got |-> FALSE]
    IN
    IF Len(q) = 0 THEN [stay EXCEPT !.error = EmptyPopError]
    ELSE
    LET key == q[Len(q)]
        rest == SubSeq(q, 1, Len(q) - 1)
    IN
    IF key \notin DOMAIN gens
    THEN [stay EXCEPT !.key_queue = rest, !.error = KeyLookupError]
    ELSE
    LET generator == gens[key] IN
    IF generator = <<>>
    THEN \* pair is None: del generators[key]; continue
         [stay EXCEPT !.generators = DelKey(gens, key),
                      !.key_queue = rest, !.pulled = TRUE]
    ELSE
    LET pair == {Head(generator)[1], Head(generator)[2]}
        advanced == [gens EXCEPT ![key] = Tail(generator)]
    IN
    IF pair \in prs
    THEN [stay EXCEPT !.generators = advanced, !.key_queue = rest,
                      !.error = DuplicatePairError, !.pulled = TRUE]
    ELSE [stay EXCEPT !.generators = advanced, !.key_queue = rest,
                      !.pairs = prs \cup {pair}, !.pulled = TRUE, !.got = TRUE]

\* the whole call: the loop run to its end, from `pairs = set()` and
\* `key_queue = sorted(generators.keys())`
RECURSIVE ExhaustLoop(_, _, _, _)
ExhaustLoop(gens, prs, queue, limit) ==
    IF ~ContinueLoop(gens, prs, limit)
    THEN [pairs |-> prs, error |-> NoError]
    ELSE LET r == ExhaustStep(gens, prs, queue) IN
         IF r.error # NoError
         THEN [pairs |-> r.pairs, error |-> r.error]
         ELSE ExhaustLoop(r.generators, r.pairs, r.key_queue, limit)

ExhaustPairsIteratorDictionary(gens, limit) ==
    ExhaustLoop(gens, {}, SortedKeys(DOMAIN gens), limit)

(***************************************************************************)
(* `[tuple(p) for p in pairs]` and SpeakerTrial(left, right, same_speaker).*)
(* tuple() of a frozenset lists its two elements in the order of their     *)
(* slots in the hash table, that is of their hashes, and the hash of a     *)
(* string changes with the seed of the process: StrHash is a seeded hash,  *)
(* the seed being chosen by the process.  Equal hashes: the smaller first. *)
(***************************************************************************)
HashModulus == 7

StrHash(x, seed) == (x * (seed + 1)) % HashModulus

HashBefore(x, y, seed) ==
    \/ StrHash(x, seed) < StrHash(y, seed)
    \/ StrHash(x, seed) = StrHash(y, seed) /\ x < y

TupleOf(p, seed) ==
    LET a == CHOOSE x \in p : \A y \in p \ {x} : HashBefore(x, y, seed)
        b == CHOOSE y \in p : y # a
    IN  <<a, b>>

SpeakerTrial(left, right, same_speaker) ==
    [left |-> left, right |-> right, same_speaker |-> same_speaker]

\* str(trial): the two sample ids and the flag, in this order
TrialStr(t) == <<t.left, t.right, IF t.same_speaker THEN 1 ELSE 0>>

\* a faulty conversion: every pair in both orientations
TrialSetBothOrders(prs, same_speaker, hash_seed) ==
    {SpeakerTrial(t[1], t[2], same_speaker) :
        t \in {ab \in (UNION prs) \X (UNION prs) : ab[1] # ab[2] /\ {ab[1], ab[2]} \in prs}}

\* the set of SpeakerTrial built from the list a pass returns
TrialSet(prs, same_speaker, hash_seed) ==
    {SpeakerTrial(TupleOf(p, hash_seed)[1], TupleOf(p, hash_seed)[2], same_speaker) :
        p \in prs}

\* a faulty sort: the greatest string first
RECURSIVE SortedTrialsDescending(_)
SortedTrialsDescending(T) ==
    IF T = {} THEN <<>>
    ELSE LET m == CHOOSE x \in T :
                     \A y \in T \ {x} : ~KeyLess(TrialStr(x), TrialStr(y))
         IN  <<m>> \o SortedTrialsDescending(T \ {m})

\* sorted(list(trial_set), key=lambda x: str(x))
RECURSIVE SortedTrials(_)
SortedTrials(T) ==
    IF T = {} THEN <<>>
    ELSE LET m == CHOOSE x \in T :
                     \A y \in T \ {x} : ~KeyLess(TrialStr(y), TrialStr(x))
         IN  <<m>> \o SortedTrials(T \ {m})

\* `return pos_pairs + neg_pairs`
Assemble(pos, neg, hash_seed) ==
    SortedTrials(TrialSet(pos, TRUE, hash_seed))
        \o SortedTrials(TrialSet(neg, FALSE, hash_seed))

(***************************************************************************)
(* WavAudioDataSampleTrialAggregator.                                      *)
(* A sample x is a record [key, speaker_id, gender]; the state of the      *)
(* aggregator is a record of its four fields (genders is the defaultdict   *)
(* _map_speaker_id_to_gender: its keys are the speakers it was indexed     *)
(* with).                                                                  *)
(***************************************************************************)
\* raise ValueError(f"non-unique {sample_id=}")
DuplicateSampleError(sample_id) ==
    [kind |-> "DuplicateSampleError", ids |-> {sample_id}]

\* raise ValueError(f"{sample_id=} is missing speaker_id label") / gender label
MissingLabelError(sample_id) ==
    [kind |-> "MissingLabelError", ids |-> {sample_id}]

\* raise ValueError(f"{speaker_id=} has gender map {gender_set}")
InconsistentGenderError(speaker_id) ==
    [kind |-> "InconsistentGenderError", ids |-> {speaker_id}]

\* assert gender == "f" or gender == "m"
InvalidGenderError == [kind |-> "InvalidGenderError", ids |-> {}]

Aggregator(sids, spks, m, g) ==
    [sample_ids |-> sids, speaker_ids |-> spks,
     map_sample_id_to_speaker_id |-> m, genders |-> g]

\* dict[key] = value
DictSet(d, k, v) == [y \in (DOMAIN d) \cup {k} |-> IF y = k THEN v ELSE d[y]]

\* a faulty lookup: a new empty set whatever the dictionary holds
DefaultGetFresh(d, k) == {}

\* defaultdict(set)[key]
DefaultGet(d, k) == IF k \in DOMAIN d THEN d[k] ELSE {}

\* a faulty __call__: the labels are tested before the sample id
AggregatorCallLabelsFirst(ag, x) ==
    IF x.speaker_id = NoSpeaker \/ x.gender = NoGender
    THEN [ag |-> ag, error |-> MissingLabelError(x.key)]
    ELSE IF x.key \in ag.sample_ids
    THEN [ag |-> ag, error |-> DuplicateSampleError(x.key)]
    ELSE [ag |-> Aggregator(
                    ag.sample_ids \cup {x.key},
                    ag.speaker_ids \cup {x.speaker_id},
                    DictSet(ag.map_sample_id_to_speaker_id, x.key, x.speaker_id),
                    DictSet(ag.genders, x.speaker_id,
                            DefaultGet(ag.genders, x.speaker_id) \cup {x.gender})),
          error |-> NoError]

\* a faulty __call__: the sample id is recorded before the labels are tested
AggregatorCallRecordsFirst(ag, x) ==
    IF x.key \in ag.sample_ids
    THEN [ag |-> ag, error |-> DuplicateSampleError(x.key)]
    ELSE IF x.speaker_id = NoSpeaker \/ x.gender = NoGender
    THEN [ag |-> [ag EXCEPT !.sample_ids = @ \cup {x.key}],
          error |-> MissingLabelError(x.key)]
    ELSE [ag |-> Aggregator(
                    ag.sample_ids \cup {x.key},
                    ag.speaker_ids \cup {x.speaker_id},
                    DictSet(ag.map_sample_id_to_speaker_id, x.key, x.speaker_id),
                    DictSet(ag.genders, x.speaker_id,
                            DefaultGet(ag.genders, x.speaker_id) \cup {x.gender})),
          error |-> NoError]

\* __call__(x): the aggregator after the call and the error raised
AggregatorCall(ag, x) ==
    IF x.key \in ag.sample_ids
    THEN [ag |-> ag, error |-> DuplicateSampleError(x.key)]
    ELSE IF x.speaker_id = NoSpeaker
    THEN [ag |-> ag, error |-> MissingLabelError(x.key)]
    ELSE IF x.gender = NoGender
    THEN [ag |-> ag, error |-> MissingLabelError(x.key)]
    ELSE [ag |-> Aggregator(
                    ag.sample_ids \cup {x.key},
                    ag.speaker_ids \cup {x.speaker_id},
                    DictSet(ag.map_sample_id_to_speaker_id, x.key, x.speaker_id),
                    DictSet(ag.genders, x.speaker_id,
                            DefaultGet(ag.genders, x.speaker_id) \cup {x.gender})),
          error |-> NoError]

\* sort_speaker_id_key: the key the speakers are sorted by, which is not
\* their string order (the ranks of neighbours are swapped)
SortSpeakerIdKey(speaker_id) ==
    IF speaker_id % 2 = 1 THEN speaker_id + 1 ELSE speaker_id - 1

\* sorted(keys, key=sort_speaker_id_key)
RECURSIVE SortedSpeakers(_)
SortedSpeakers(K) ==
    IF K = {} THEN <<>>
    ELSE LET m == CHOOSE x \in K :
                     \A y \in K \ {x} : SortSpeakerIdKey(x) < SortSpeakerIdKey(y)
         IN  <<m>> \o SortedSpeakers(K \ {m})

\* a faulty loop: only an empty gender set is refused
RECURSIVE GenderMappingLoopAnyOf(_, _, _)
GenderMappingLoopAnyOf(todo, g, map_to_return) ==
    IF todo = <<>>
    THEN [genders |-> g, error |-> NoError, value |-> map_to_return]
    ELSE
    LET speaker_id == Head(todo)
        gender_set == g[speaker_id]
    IN
    IF Cardinality(gender_set) = 0
    THEN [genders |-> g, error |-> InconsistentGenderError(speaker_id), value |-> <<>>]
    ELSE
    LET gender == CHOOSE x \in gender_set : TRUE
        popped == [g EXCEPT ![speaker_id] = gender_set \ {gender}]
    IN
    IF ~(gender = "f" \/ gender = "m")
    THEN [genders |-> popped, error |-> InvalidGenderError, value |-> <<>>]
    ELSE GenderMappingLoopAnyOf(Tail(todo), popped,
                                DictSet(map_to_return, speaker_id, gender))

\* a faulty loop: the gender is tested before the size of the set
RECURSIVE GenderMappingLoopValueFirst(_, _, _)
GenderMappingLoopValueFirst(todo, g, map_to_return) ==
    IF todo = <<>>
    THEN [genders |-> g, error |-> NoError, value |-> map_to_return]
    ELSE
    LET speaker_id == Head(todo)
        gender_set == g[speaker_id]
    IN
    IF \E x \in gender_set : ~(x = "f" \/ x = "m")
    THEN [genders |-> g, error |-> InvalidGenderError, value |-> <<>>]
    ELSE IF Cardinality(gender_set) # 1
    THEN [genders |-> g, error |-> InconsistentGenderError(speaker_id), value |-> <<>>]
    ELSE GenderMappingLoopValueFirst(Tail(todo), [g EXCEPT ![speaker_id] = {}],
             DictSet(map_to_return, speaker_id, CHOOSE x \in gender_set : TRUE))

\* the loop of get_gender_mapping over the speakers still to visit:
\* the genders dictionary after it, the error raised, the map built
RECURSIVE GenderMappingLoop(_, _, _)
GenderMappingLoop(todo, g, map_to_return) ==
    IF todo = <<>>
    THEN [genders |-> g, error |-> NoError, value |-> map_to_return]
    ELSE
    LET speaker_id == Head(todo)
        gender_set == g[speaker_id]
    IN
    IF Cardinality(gender_set) # 1
    THEN [genders |-> g, error |-> InconsistentGenderError(speaker_id), value |-> <<>>]
    ELSE
    LET gender == CHOOSE x \in gender_set : TRUE
        popped == [g EXCEPT ![speaker_id] = {}]
    IN
    IF ~(gender = "f" \/ gender = "m")
    THEN [genders |-> popped, error |-> InvalidGenderError, value |-> <<>>]
    ELSE GenderMappingLoop(Tail(todo), popped, DictSet(map_to_return, speaker_id, gender))

\* get_gender_mapping()
GetGenderMappingResult(g) ==
    GenderMappingLoop(SortedSpeakers(DOMAIN g), g, <<>>)

(***************************************************************************)
(* generate_speaker_trials, as main() calls it: the samples and the        *)
(* sample->speaker map are the aggregator's, the gender map is the one     *)
(* get_gender_mapping returned.                                            *)
(***************************************************************************)
\* the whole call, for one iteration order of `samples` and one hash seed
GenerateSpeakerTrials(order, map_sample_to_speaker, gender_map, same_sex, limit, seed) ==
    LET sps == SamplesPerSpeaker(order, map_sample_to_speaker)
        pos == ExhaustPairsIteratorDictionary(PositiveGenerators(sps), limit)
        neg == ExhaustPairsIteratorDictionary(
                   NegativeGenerators(sps, same_sex, gender_map), limit)
    IN  Assemble(pos.pairs, neg.pairs, seed)

Limits == {None} \cup {Some(n) : n \in 0..MaxLimit}

\* The inputs: samples 1..n of speakers 1..k, every speaker with a sample,
\* the samples numbered speaker by speaker.
InputMaps(n) ==
    {m \in [1..n -> 1..MaxSpeakers] :
        /\ \A i, j \in 1..n : i < j => m[i] <= m[j]
        /\ \E k \in 0..MaxSpeakers : Range(m) = 1..k}

\* the state of main() after the aggregation, before generate_speaker_trials
Init ==
    \E n \in 0..MaxSamples :
        \E m \in InputMaps(n) :
            /\ sample_ids = 1..n
            /\ speaker_ids = Range(m)
            /\ map_sample_id_to_speaker_id = m
            /\ map_speaker_id_to_gender = [s \in Range(m) |-> {}]
            /\ map_speaker_to_gender \in [Range(m) -> RecognizedGenders]
            /\ ag_result = [op |-> "get_gender_mapping", error |-> NoError,
                            value |-> map_speaker_to_gender]
            /\ observed = {[key |-> x, speaker_id |-> m[x],
                            gender |-> map_speaker_to_gender[m[x]]] : x \in 1..n}
            /\ mapping_called = TRUE
            /\ ensure_same_sex_trials \in BOOLEAN
            /\ limit_num_trials \in Limits
            /\ pc = "main"
            /\ samples_per_speaker = <<>>
            /\ pos_pairs = {}
            /\ trials = <<>>
            /\ error = NoError
            /\ generators = <<>>
            /\ pairs = {}
            /\ key_queue = <<>>
            /\ yielded = <<>>
            /\ pulls = 0
            /\ visited = <<>>

\* the call, _samples_per_speaker, and _positive_pairs up to the loop
Generate ==
    /\ pc = "main"
    /\ \E sps \in {SamplesPerSpeaker(order, map_sample_id_to_speaker_id) :
                       order \in Perms(sample_ids)} :
        LET gens == PositiveGenerators(sps)
        IN  /\ samples_per_speaker' = sps
            /\ generators' = gens
            /\ key_queue' = SortedKeys(DOMAIN gens)
            /\ yielded' = [k \in DOMAIN gens |-> 0]
    /\ pairs' = {}
    /\ pulls' = 0
    /\ visited' = <<>>
    /\ pc' = "positive"
    /\ UNCHANGED <<ag_vars, arg_vars, pos_pairs, trials, error>>

\* one iteration of the loop of _exhaust_pairs_iterator_dictionary; a raise
\* ends the program in the pass it happens in
LoopStep ==
    /\ pc \in {"positive", "negative"}
    /\ error = NoError
    /\ ContinueLoop(generators, pairs, limit_num_trials)
    /\ LET r == ExhaustStep(generators, pairs, key_queue)
           key == PoppedKey(generators, key_queue)
       IN  /\ generators' = r.generators
           /\ pairs' = r.pairs
           /\ key_queue' = r.key_queue
           /\ error' = r.error
           /\ pulls' = IF r.pulled THEN pulls + 1 ELSE pulls
           /\ visited' = IF ~r.pulled THEN visited
                          ELSE IF Len(key_queue) = 0 THEN <<key>>
                          ELSE Append(visited, key)
           /\ yielded' = IF r.got THEN [yielded EXCEPT ![key] = @ + 1] ELSE yielded
    /\ UNCHANGED <<ag_vars, arg_vars, pc, samples_per_speaker, pos_pairs, trials>>

\* the positive pass returns; _negative_pairs up to the loop
PositiveReturn ==
    /\ pc = "positive"
    /\ error = NoError
    /\ ~ContinueLoop(generators, pairs, limit_num_trials)
    /\ pos_pairs' = pairs
    /\ LET gens == NegativeGenerators(samples_per_speaker, ensure_same_sex_trials,
                                      map_speaker_to_gender)
       IN  /\ generators' = gens
           /\ key_queue' = SortedKeys(DOMAIN gens)
           /\ yielded' = [k \in DOMAIN gens |-> 0]
    /\ pairs' = {}
    /\ pulls' = 0
    /\ visited' = <<>>
    /\ pc' = "negative"
    /\ UNCHANGED <<ag_vars, arg_vars, samples_per_speaker, trials, error>>

\* the negative pass returns; the two sets are sorted and concatenated
NegativeReturn ==
    /\ pc = "negative"
    /\ error = NoError
    /\ ~ContinueLoop(generators, pairs, limit_num_trials)
    /\ \E hash_seed \in 0..MaxSeed :
          trials' = Assemble(pos_pairs, pairs, hash_seed)
    /\ pc' = "done"
    /\ UNCHANGED <<ag_vars, arg_vars, samples_per_speaker, pos_pairs, error,
                   generators, pairs, key_queue, yielded, pulls, visited>>

Next ==
    \/ Generate
    \/ LoopStep
    \/ PositiveReturn
    \/ NegativeReturn

Spec == Init /\ [][Next]_vars

\* The program is one sequential thread: the interpreter always executes the
\* next statement, so a step that is possible is eventually taken.
InitFair == Init /\ Cardinality(sample_ids) <= MaxFairSamples

SpecFair == InitFair /\ [][Next]_vars /\ WF_vars(Next)

(***************************************************************************)
(* The aggregator on its own: any sequence of __call__ and                 *)
(* get_gender_mapping, a failed call leaving the object usable.            *)
(***************************************************************************)
SampleRecords ==
    [key : 1..MaxKeys,
     speaker_id : (1..MaxAggSpeakers) \cup {NoSpeaker},
     gender : Genders \cup {NoGender}]

TheAggregator ==
    Aggregator(sample_ids, speaker_ids, map_sample_id_to_speaker_id,
               map_speaker_id_to_gender)

InitAgg ==
    /\ sample_ids = {}
    /\ speaker_ids = {}
    /\ map_sample_id_to_speaker_id = <<>>
    /\ map_speaker_id_to_gender = <<>>
    /\ ag_result = [op |-> "init", error |-> NoError, value |-> <<>>]
    /\ observed = {}
    /\ mapping_called = FALSE
    /\ map_speaker_to_gender = <<>>
    /\ ensure_same_sex_trials = TRUE
    /\ limit_num_trials = None
    /\ pc = "aggregate"
    /\ samples_per_speaker = <<>>
    /\ pos_pairs = {}
    /\ trials = <<>>
    /\ error = NoError
    /\ generators = <<>>
    /\ pairs = {}
    /\ key_queue = <<>>
    /\ yielded = <<>>
    /\ pulls = 0
    /\ visited = <<>>

\* ag(x); main() passes every sample before it asks for the gender mapping
CallWith(x) ==
    /\ pc = "aggregate"
    /\ ~mapping_called
    /\ LET r == AggregatorCall(TheAggregator, x)
       IN  /\ sample_ids' = r.ag.sample_ids
           /\ speaker_ids' = r.ag.speaker_ids
           /\ map_sample_id_to_speaker_id' = r.ag.map_sample_id_to_speaker_id
           /\ map_speaker_id_to_gender' = r.ag.genders
           /\ ag_result' = [op |-> "call", error |-> r.error, value |-> <<>>]
           /\ observed' = IF r.error = NoError THEN observed \cup {x} ELSE observed
    /\ UNCHANGED <<mapping_called, arg_vars, gen_vars>>

Call == \E x \in SampleRecords : CallWith(x)

\* ag.get_gender_mapping()
GetGenderMapping ==
    /\ pc = "aggregate"
    /\ LET r == GetGenderMappingResult(map_speaker_id_to_gender)
       IN  /\ map_speaker_id_to_gender' = r.genders
           /\ ag_result' = [op |-> "get_gender_mapping", error |-> r.error,
                            value |-> r.value]
    /\ mapping_called' = TRUE
    /\ UNCHANGED <<sample_ids, speaker_ids, map_sample_id_to_speaker_id, observed,
                   arg_vars, gen_vars>>

NextAgg ==
    \/ Call
    \/ GetGenderMapping

SpecAgg == InitAgg /\ [][NextAgg]_vars

(***************************************************************************)
(* What the properties speak of.                                           *)
(***************************************************************************)
SpeakerOf(a) == map_sample_id_to_speaker_id[a]

\* the unordered pairs of two samples of one speaker
SameSpeakerPairs ==
    {{a, b} : <<a, b>> \in {ab \in sample_ids \X sample_ids :
                               ab[1] # ab[2] /\ SpeakerOf(ab[1]) = SpeakerOf(ab[2])}}

\* two distinct speakers qualify: always, or when their genders are equal
Qualifies(s1, s2) ==
    /\ s1 # s2
    /\ ensure_same_sex_trials => map_speaker_to_gender[s1] = map_speaker_to_gender[s2]

\* the unordered pairs of two samples of two qualifying speakers
CrossSpeakerPairs ==
    {{a, b} : <<a, b>> \in {ab \in sample_ids \X sample_ids :
                               Qualifies(SpeakerOf(ab[1]), SpeakerOf(ab[2]))}}

PairOfTrial(t) == {t.left, t.right}

TrialsWith(flag) == {i \in DOMAIN trials : trials[i].same_speaker = flag}

\* a pass has ended: its loop has stopped without a raise
PassEnded(pass) ==
    /\ pc = pass
    /\ error = NoError
    /\ ~ContinueLoop(generators, pairs, limit_num_trials)

\* the generators the running pass started from
InitialGenerators ==
    IF pc = "positive"
    THEN PositiveGenerators(samples_per_speaker)
    ELSE NegativeGenerators(samples_per_speaker, ensure_same_sex_trials,
                            map_speaker_to_gender)

RECURSIVE TotalPairs(_)
TotalPairs(gens) ==
    IF DOMAIN gens = {} THEN 0
    ELSE LET k == CHOOSE x \in DOMAIN gens : TRUE
         IN  Len(gens[k]) + TotalPairs(Restrict(gens, (DOMAIN gens) \ {k}))

SamplesOf(s) == {a \in sample_ids : SpeakerOf(a) = s}

(***************************************************************************)
(* C1: for fixed samples, speakers, genders, limit and flag the returned   *)
(* list is the same for every iteration order of the sample set and every  *)
(* hash order of the pairs: it is the list of the run that iterates the    *)
(* samples in sorted order with hash seed 0.                               *)
(***************************************************************************)
C1_Deterministic ==
    pc = "done" =>
        trials = GenerateSpeakerTrials(SortedSamples(sample_ids),
                     map_sample_id_to_speaker_id, map_speaker_to_gender,
                     ensure_same_sex_trials, limit_num_trials, 0)

\* A consequence of C1 that does not depend on the orientation of a trial:
\* the unordered pairs of the returned list are those of the sorted run.
C1_SamePairs ==
    pc = "done" =>
        {PairOfTrial(trials[i]) : i \in DOMAIN trials} =
            LET ref == GenerateSpeakerTrials(SortedSamples(sample_ids),
                           map_sample_id_to_speaker_id, map_speaker_to_gender,
                           ensure_same_sex_trials, limit_num_trials, 0)
            IN  {PairOfTrial(ref[i]) : i \in DOMAIN ref}

(***************************************************************************)
(* C2: with the limit unset the positive pass ends without error with      *)
(* exactly the pairs of two samples of one speaker, and each is one        *)
(* same_speaker trial of the returned list.                                *)
(***************************************************************************)
C2_PositiveExact ==
    /\ (limit_num_trials = None /\ pc = "positive") => error = NoError
    /\ (limit_num_trials = None /\ PassEnded("positive")) => pairs = SameSpeakerPairs
    /\ (limit_num_trials = None /\ pc \in {"negative", "done"}) =>
            pos_pairs = SameSpeakerPairs
    /\ (limit_num_trials = None /\ pc = "done") =>
            /\ \A p \in SameSpeakerPairs :
                  Cardinality({i \in TrialsWith(TRUE) : PairOfTrial(trials[i]) = p}) = 1
            /\ \A i \in TrialsWith(TRUE) : PairOfTrial(trials[i]) \in SameSpeakerPairs

C2_Witness ==
    /\ pc = "done"
    /\ limit_num_trials = None
    /\ \E s \in speaker_ids : Cardinality(SamplesOf(s)) = 1
    /\ \E s \in speaker_ids : Cardinality(SamplesOf(s)) >= 3
    /\ TrialsWith(TRUE) # {}

(***************************************************************************)
(* C3: with the limit unset the negative pass ends with exactly the pairs  *)
(* of two samples of two qualifying speakers, and each is one trial with   *)
(* same_speaker false of the returned list.                                *)
(***************************************************************************)
C3_NegativeExact ==
    /\ (limit_num_trials = None /\ PassEnded("negative")) => pairs = CrossSpeakerPairs
    /\ (limit_num_trials = None /\ pc = "done") =>
            /\ \A p \in CrossSpeakerPairs :
                  Cardinality({i \in TrialsWith(FALSE) : PairOfTrial(trials[i]) = p}) = 1
            /\ \A i \in TrialsWith(FALSE) : PairOfTrial(trials[i]) \in CrossSpeakerPairs

C3_Witness ==
    /\ pc = "done"
    /\ limit_num_trials = None
    /\ ensure_same_sex_trials
    /\ Cardinality(speaker_ids) = 3
    /\ Cardinality(Range(map_speaker_to_gender)) = 2
    /\ TrialsWith(FALSE) # {}

(***************************************************************************)
(* C4: with ensure_same_sex_trials, every pair the negative pass holds, at *)
(* every step and for every limit, joins two speakers of equal gender, and *)
(* a speaker who is alone in its gender is in no negative pair or trial.   *)
(***************************************************************************)
AloneInGender(s) ==
    \A s2 \in speaker_ids \ {s} : map_speaker_to_gender[s2] # map_speaker_to_gender[s]

SameSexPair(p) ==
    /\ Cardinality(p) = 2
    /\ \A a, b \in p :
          a # b => /\ SpeakerOf(a) # SpeakerOf(b)
                   /\ map_speaker_to_gender[SpeakerOf(a)] = map_speaker_to_gender[SpeakerOf(b)]
    /\ \A a \in p : ~AloneInGender(SpeakerOf(a))

C4_SameSexOnly ==
    ensure_same_sex_trials =>
        /\ pc \in {"negative", "done"} => \A p \in pairs : SameSexPair(p)
        /\ pc = "done" => \A i \in TrialsWith(FALSE) : SameSexPair(PairOfTrial(trials[i]))

C4_Witness ==
    /\ pc = "negative"
    /\ ensure_same_sex_trials
    /\ limit_num_trials # None
    /\ pairs # {}
    /\ ContinueLoop(generators, pairs, limit_num_trials)
    /\ \E s \in speaker_ids : AloneInGender(s)

(***************************************************************************)
(* C5: no two trials of the returned list hold the same unordered pair of  *)
(* samples, whatever their orientation and their same_speaker flags.       *)
(***************************************************************************)
C5_NoDuplicatePair ==
    pc = "done" =>
        \A i, j \in DOMAIN trials :
            i # j => PairOfTrial(trials[i]) # PairOfTrial(trials[j])

C5_Witness ==
    /\ pc = "done"
    /\ TrialsWith(TRUE) # {}
    /\ TrialsWith(FALSE) # {}
    /\ \E i \in DOMAIN trials : trials[i].left > trials[i].right
    /\ \E i \in DOMAIN trials : trials[i].left < trials[i].right

(***************************************************************************)
(* C6: when a pass ends with a limit N smaller than the number of pairs    *)
(* its generators hold, the numbers of pairs yielded by any two groups     *)
(* that yielded a pair differ by at most 1.                                *)
(***************************************************************************)
LimitCutsPass ==
    /\ pc \in {"positive", "negative"}
    /\ PassEnded(pc)
    /\ limit_num_trials # None
    /\ limit_num_trials[1] < TotalPairs(InitialGenerators)

AtMostOneApart(m, n) == m - n <= 1 /\ n - m <= 1

C6_Fairness ==
    LimitCutsPass =>
        \A k1, k2 \in {k \in DOMAIN yielded : yielded[k] > 0} :
            AtMostOneApart(yielded[k1], yielded[k2])

(***************************************************************************)
(* C6, amended: when a pass ends with a limit N smaller than the number of *)
(* pairs its generators hold, the numbers of pairs yielded by any two      *)
(* groups whose generators are still active differ by at most 1, and a     *)
(* group whose generator was found exhausted and removed has yielded all   *)
(* its pairs, which are no more than any still active group has yielded.   *)
(***************************************************************************)
C6_FairnessAmongActive ==
    LimitCutsPass =>
        /\ \A k1, k2 \in DOMAIN generators : AtMostOneApart(yielded[k1], yielded[k2])
        /\ \A k \in (DOMAIN yielded) \ (DOMAIN generators) :
              /\ yielded[k] = Len(InitialGenerators[k])
              /\ \A a \in DOMAIN generators : yielded[k] <= yielded[a]

C6_Witness ==
    /\ LimitCutsPass
    /\ \E k1, k2 \in DOMAIN generators : yielded[k1] = yielded[k2] + 1
    /\ \E k \in (DOMAIN yielded) \ (DOMAIN generators) :
          /\ yielded[k] > 0
          /\ \E a \in DOMAIN generators : yielded[a] >= yielded[k] + 2

(***************************************************************************)
(* C7: with limit N a pass never holds more than N pairs and ends with     *)
(* exactly min(N, T) pairs, T being the number of pairs its generators     *)
(* hold; with N = 0 it calls next() on no generator; and the returned list *)
(* holds min(N, T) same_speaker trials for the T of the positive pass plus *)
(* min(N, T) other trials for the T of the negative pass.                  *)
(***************************************************************************)
C7_LimitPerPass ==
    limit_num_trials # None =>
        LET N == limit_num_trials[1] IN
        /\ pc \in {"positive", "negative"} =>
              /\ Cardinality(pairs) <= N
              /\ N = 0 => pulls = 0
              /\ PassEnded(pc) =>
                    Cardinality(pairs) = Min2(N, TotalPairs(InitialGenerators))
        /\ pc = "done" =>
              /\ Cardinality(TrialsWith(TRUE)) =
                    Min2(N, TotalPairs(PositiveGenerators(samples_per_speaker)))
              /\ Cardinality(TrialsWith(FALSE)) =
                    Min2(N, TotalPairs(NegativeGenerators(samples_per_speaker,
                                ensure_same_sex_trials, map_speaker_to_gender)))

C7_Witness ==
    /\ pc = "done"
    /\ limit_num_trials # None
    /\ limit_num_trials[1] > 0
    /\ Cardinality(TrialsWith(TRUE)) = limit_num_trials[1]
    /\ Cardinality(TrialsWith(FALSE)) > 0
    /\ Cardinality(TrialsWith(FALSE)) < limit_num_trials[1]
    /\ limit_num_trials[1] < TotalPairs(PositiveGenerators(samples_per_speaker))

(***************************************************************************)
(* C8: __call__(x) raises the duplicate-sample error when x.key is the key *)
(* of a sample an earlier call accepted; else the missing-label error when *)
(* the speaker_id or the gender of x is None; else it raises nothing, adds *)
(* the key to sample_ids, maps the key to the speaker and adds the gender  *)
(* to the gender set of the speaker.                                       *)
(***************************************************************************)
C8_CallOutcome(x) ==
    IF x.key \in {y.key : y \in observed}
    THEN ag_result'.error = DuplicateSampleError(x.key)
    ELSE IF x.speaker_id = NoSpeaker \/ x.gender = NoGender
    THEN ag_result'.error = MissingLabelError(x.key)
    ELSE /\ ag_result'.error = NoError
         /\ sample_ids' = sample_ids \cup {x.key}
         /\ x.key \in DOMAIN map_sample_id_to_speaker_id'
         /\ map_sample_id_to_speaker_id'[x.key] = x.speaker_id
         /\ x.speaker_id \in DOMAIN map_speaker_id_to_gender'
         /\ map_speaker_id_to_gender'[x.speaker_id] =
                DefaultGet(map_speaker_id_to_gender, x.speaker_id) \cup {x.gender}

C8_Observe ==
    [][\A x \in SampleRecords : CallWith(x) => C8_CallOutcome(x)]_vars

\* a duplicate was refused, one with a missing label too, after accepted calls
C8_Witness ==
    /\ ag_result.op = "call"
    /\ ag_result.error.kind = "DuplicateSampleError"
    /\ Cardinality(observed) >= 2
    /\ \E s \in DOMAIN map_speaker_id_to_gender :
          Cardinality(map_speaker_id_to_gender[s]) = 2

(***************************************************************************)
(* C9: the first get_gender_mapping after calls that accepted recognized   *)
(* genders only raises the inconsistent-gender error if and only if the    *)
(* gender set of some speaker holds more than one value; otherwise it      *)
(* returns a map whose keys are the speakers observed, each mapped to the  *)
(* one gender observed for it.                                             *)
(***************************************************************************)
GendersObserved(s) == {y.gender : y \in {z \in observed : z.speaker_id = s}}

SpeakersObserved == {y.speaker_id : y \in observed}

FirstMappingCall == GetGenderMapping /\ ~mapping_called

C9_MappingOutcome ==
    LET inconsistent ==
            \E s \in DOMAIN map_speaker_id_to_gender :
                Cardinality(map_speaker_id_to_gender[s]) > 1
    IN  /\ ag_result'.error.kind = "InconsistentGenderError" <=> inconsistent
        /\ ~inconsistent =>
              /\ ag_result'.error = NoError
              /\ DOMAIN ag_result'.value = SpeakersObserved
              /\ DOMAIN ag_result'.value = speaker_ids
              /\ \A s \in SpeakersObserved : GendersObserved(s) = {ag_result'.value[s]}

C9_GenderMapping ==
    [][(FirstMappingCall /\ \A y \in observed : y.gender \in RecognizedGenders)
          => C9_MappingOutcome]_vars

\* a map of two speakers was returned, all genders being recognized
C9_Witness ==
    /\ ag_result.op = "get_gender_mapping"
    /\ ag_result.error = NoError
    /\ Cardinality(DOMAIN ag_result.value) = 2
    /\ Cardinality(observed) = 3
    /\ \A y \in observed : y.gender \in RecognizedGenders

(***************************************************************************)
(* C10: when an accepted sample carries a gender that is not recognized,   *)
(* the first get_gender_mapping raises the invalid-gender error and        *)
(* returns no map.                                                         *)
(***************************************************************************)
SomeUnrecognized == \E y \in observed : y.gender \notin RecognizedGenders

C10_InvalidGender ==
    [][(FirstMappingCall /\ SomeUnrecognized) =>
          /\ ag_result'.error = InvalidGenderError
          /\ ag_result'.value = <<>>]_vars

(***************************************************************************)
(* C10, amended: when an accepted sample carries a gender that is not      *)
(* recognized, the first get_gender_mapping raises an error and returns no *)
(* map.  The error is decided by the first speaker, in the order of the    *)
(* sort key, whose gender set is not one recognized value: the             *)
(* invalid-gender error when that set holds one value, the                 *)
(* inconsistent-gender error of that speaker when it holds more, as when   *)
(* it holds the unrecognized value together with a recognized one.         *)
(***************************************************************************)
BadGenderSet(gender_set) ==
    ~(Cardinality(gender_set) = 1 /\ gender_set \subseteq RecognizedGenders)

C10_MappingFailure ==
    LET g == map_speaker_id_to_gender
        bad == {s \in DOMAIN g : BadGenderSet(g[s])}
        first == CHOOSE s \in bad :
                    \A t \in bad \ {s} : SortSpeakerIdKey(s) < SortSpeakerIdKey(t)
    IN  /\ bad # {}
        /\ ag_result'.value = <<>>
        /\ Cardinality(g[first]) = 1 => ag_result'.error = InvalidGenderError
        /\ Cardinality(g[first]) > 1 => ag_result'.error = InconsistentGenderError(first)

C10_InvalidOrInconsistent ==
    [][(FirstMappingCall /\ SomeUnrecognized) => C10_MappingFailure]_vars

\* the inconsistent-gender error was raised for a speaker with an
\* unrecognized and a recognized gender
C10_Witness ==
    /\ ag_result.op = "get_gender_mapping"
    /\ ag_result.error.kind = "InconsistentGenderError"
    /\ \E s \in ag_result.error.ids : GendersObserved(s) = {"x", "f"}
    /\ \A s \in DOMAIN map_speaker_id_to_gender :
          map_speaker_id_to_gender[s] = GendersObserved(s)

(***************************************************************************)
(* C11: in the returned list every trial with same_speaker true precedes   *)
(* every trial with same_speaker false, and within each of the two blocks  *)
(* the strings of the trials never decrease from one position to the next. *)
(***************************************************************************)
C11_BlocksSorted ==
    pc = "done" =>
        /\ \A i \in TrialsWith(TRUE) : \A j \in TrialsWith(FALSE) : i < j
        /\ \A i, j \in DOMAIN trials :
              (i < j /\ trials[i].same_speaker = trials[j].same_speaker)
                 => ~KeyLess(TrialStr(trials[j]), TrialStr(trials[i]))

\* both blocks hold two trials or more, and a trial of the second block has
\* a smaller string than a trial of the first
C11_Witness ==
    /\ pc = "done"
    /\ Cardinality(TrialsWith(TRUE)) >= 2
    /\ Cardinality(TrialsWith(FALSE)) >= 2
    /\ \E i \in TrialsWith(TRUE) : \E j \in TrialsWith(FALSE) :
          KeyLess(TrialStr(trials[j]), TrialStr(trials[i]))

(***************************************************************************)
(* C12: every error raised carries the identifier of the offending sample, *)
(* speaker or pair: the error of the last call of the aggregator and the   *)
(* error of the scheduler name at least one identifier.                    *)
(***************************************************************************)
C12_ErrorsCarryIds ==
    /\ ag_result.error.kind # "none" => ag_result.error.ids # {}
    /\ error.kind # "none" => error.ids # {}

(***************************************************************************)
(* C13: the sample ids being distinct and every sample having one speaker, *)
(* no pass raises the duplicate-pair error, whatever the limit, the flag   *)
(* and the order of the lists of the speakers.                             *)
(***************************************************************************)
C13_NoDuplicatePairError ==
    error.kind # "DuplicatePairError"

\* both passes have run to their end over three speakers, two of them with
\* two samples or more, and each has returned pairs of several generators
C13_Witness ==
    /\ pc = "done"
    /\ limit_num_trials = None
    /\ Cardinality(DOMAIN samples_per_speaker) = 3
    /\ Cardinality({s \in DOMAIN samples_per_speaker :
                       Len(samples_per_speaker[s]) >= 2}) = 2
    /\ Cardinality(TrialsWith(TRUE)) >= 2
    /\ Cardinality(TrialsWith(FALSE)) >= 8

(***************************************************************************)
(* C14: every iteration of the loop calls next() on exactly one generator, *)
(* the one of the last key of the queue.  The queue is filled anew only    *)
(* when it is empty, with exactly the keys of the generators then active,  *)
(* and is otherwise only shortened by the popped key.  The keys popped     *)
(* since the queue was last filled are strictly descending, every key      *)
(* still queued is smaller than each of them, and every active generator   *)
(* is either among them or still queued: no generator is pulled a second   *)
(* time before the others have been pulled once.                           *)
(***************************************************************************)
\* the generators next() was called on in this step: the ones that changed
PulledKeys ==
    {k \in DOMAIN generators :
        k \notin DOMAIN generators' \/ generators'[k] # generators[k]}

StrictlyDescending(q) ==
    \A i, j \in DOMAIN q : i < j => KeyLess(q[j], q[i])

RoundInOrder ==
    /\ StrictlyDescending(visited)
    /\ \A i \in DOMAIN key_queue : \A j \in DOMAIN visited :
          KeyLess(key_queue[i], visited[j])
    /\ \A i, j \in DOMAIN key_queue : i < j => KeyLess(key_queue[i], key_queue[j])
    /\ DOMAIN generators \subseteq Range(visited) \cup Range(key_queue)

C14_OnePull ==
    /\ Cardinality(PulledKeys) = 1
    /\ pulls' = pulls + 1
    /\ \A k \in PulledKeys :
          /\ visited'[Len(visited')] = k
          /\ IF Len(key_queue) = 0
             THEN /\ Range(key_queue') \cup {k} = DOMAIN generators
                  /\ Len(key_queue') + 1 = Cardinality(DOMAIN generators)
                  /\ visited' = <<k>>
             ELSE /\ k = key_queue[Len(key_queue)]
                  /\ key_queue' = SubSeq(key_queue, 1, Len(key_queue) - 1)
                  /\ visited' = Append(visited, k)
    /\ RoundInOrder'

C14_Rounds ==
    [][LoopStep => C14_OnePull]_vars

\* in a later round of three generators, two have been pulled and one waits
C14_Witness ==
    /\ pc = "negative"
    /\ Len(visited) = 2
    /\ Len(key_queue) = 1
    /\ pulls >= 5
    /\ Cardinality(DOMAIN generators) = 3

(***************************************************************************)
(* C15: an iteration whose next() finds the generator exhausted removes    *)
(* that generator from the dictionary and adds no pair; no iteration adds  *)
(* a key to the dictionary; and a removed key is in no later queue, so     *)
(* that no later iteration pops it or looks it up.                         *)
(***************************************************************************)
\* the keys the running pass started with and has removed
RemovedKeys == (DOMAIN yielded) \ (DOMAIN generators)

\* the key this iteration has popped: the last of the keys popped so far
PoppedNow == visited'[Len(visited')]

C15_Exhausted ==
    /\ pulls' = pulls + 1
    /\ PoppedNow \in DOMAIN generators
    /\ PoppedNow \notin RemovedKeys
    /\ generators[PoppedNow] = <<>> =>
          /\ PoppedNow \notin DOMAIN generators'
          /\ pairs' = pairs
          /\ yielded' = yielded
    /\ DOMAIN generators' \subseteq DOMAIN generators
    /\ Range(key_queue') \cap RemovedKeys' = {}
    /\ error' = NoError

C15_RemovedForGood ==
    [][LoopStep => C15_Exhausted]_vars

\* after a generator was removed the queue was filled anew, the pass goes
\* on with two generators and has pulled from one of them since
C15_Witness ==
    /\ pc = "negative"
    /\ RemovedKeys # {}
    /\ visited # <<>>
    /\ Range(visited) \cap RemovedKeys = {}
    /\ Cardinality(DOMAIN generators) = 2
    /\ key_queue # <<>>

(***************************************************************************)
(* C16: the loop of each pass terminates, so that the program reaches its  *)
(* end; and when the loop of a pass has stopped without error, either no   *)
(* generator is left, or the limit is set and the number of pairs equals   *)
(* it; with the limit unset no generator is left.                          *)
(***************************************************************************)
C16_EndState ==
    \A pass \in {"positive", "negative"} :
        PassEnded(pass) =>
            /\ \/ DOMAIN generators = {}
               \/ /\ limit_num_trials # None
                  /\ Cardinality(pairs) = limit_num_trials[1]
            /\ limit_num_trials = None => DOMAIN generators = {}

C17_QueueOfActiveKeys ==
    pc \in {"positive", "negative"} =>
        /\ \A i, j \in DOMAIN key_queue : i # j => key_queue[i] # key_queue[j]
        /\ Range(key_queue) \subseteq DOMAIN generators
        /\ error.kind \notin {"KeyError", "IndexError"}
        /\ ContinueLoop(generators, pairs, limit_num_trials) =>
              /\ Len(Refill(generators, key_queue)) > 0
              /\ PoppedKey(generators, key_queue) \in DOMAIN generators

\* a generator was removed in the second round, a key is still queued
C17_Witness ==
    /\ pc = "negative"
    /\ RemovedKeys # {}
    /\ Len(key_queue) = 1
    /\ Cardinality(DOMAIN generators) = 2
    /\ pulls = 5

(***************************************************************************)
(* C18: a call of the aggregator that raises (duplicate id, missing        *)
(* speaker_id, missing gender) leaves the set of sample ids, the set of    *)
(* speakers, the map from sample to speaker and the gender sets of the     *)
(* speakers as they were, so that they still describe the accepted         *)
(* samples only.                                                           *)
(***************************************************************************)
\* a step that is a call of the aggregator, and the call raised
FailedCall ==
    /\ ag_result'.op = "call"
    /\ ag_result'.error # NoError

C18_FailedCallFrame ==
    [][FailedCall =>
          /\ UNCHANGED <<sample_ids, speaker_ids, map_sample_id_to_speaker_id,
                         map_speaker_id_to_gender>>
          /\ sample_ids' = {y.key : y \in observed'}
          /\ speaker_ids' = SpeakersObserved']_vars

\* a sample without a label was refused after two samples were accepted
C18_Witness ==
    /\ ag_result.op = "call"
    /\ ag_result.error.kind = "MissingLabelError"
    /\ Cardinality(observed) = 2
    /\ ~mapping_called

(***************************************************************************)
(* C19: get_gender_mapping does not change the aggregator: a call that     *)
(* returns a map leaves the gender sets of the speakers as they were, and  *)
(* a call that follows a call that returned a map returns the same map.    *)
(***************************************************************************)
C19_MappingPure ==
    [][GetGenderMapping =>
          /\ ag_result'.error = NoError =>
                UNCHANGED <<sample_ids, speaker_ids, map_sample_id_to_speaker_id,
                            map_speaker_id_to_gender>>
          /\ (ag_result.op = "get_gender_mapping" /\ ag_result.error = NoError) =>
                ag_result' = ag_result]_vars

(***************************************************************************)
(* C20: after any calls of the aggregator, accepted or refused, and before *)
(* get_gender_mapping: the set of sample ids is the key set of the map     *)
(* from sample to speaker; the set of speakers is the set of values of     *)
(* that map and the key set of the gender sets; and the gender set of each *)
(* speaker is not empty and holds the genders of the accepted samples of   *)
(* that speaker.                                                           *)
(***************************************************************************)
C20_AggregatorConsistent ==
    (pc = "aggregate" /\ ~mapping_called) =>
        /\ sample_ids = DOMAIN map_sample_id_to_speaker_id
        /\ sample_ids = {y.key : y \in observed}
        /\ \A y \in observed : map_sample_id_to_speaker_id[y.key] = y.speaker_id
        /\ speaker_ids = Range(map_sample_id_to_speaker_id)
        /\ speaker_ids = DOMAIN map_speaker_id_to_gender
        /\ \A s \in DOMAIN map_speaker_id_to_gender :
              /\ map_speaker_id_to_gender[s] # {}
              /\ map_speaker_id_to_gender[s] = GendersObserved(s)

\* three samples of two speakers were accepted, one speaker with two
\* genders, and the last call was refused
C20_Witness ==
    /\ pc = "aggregate"
    /\ ~mapping_called
    /\ Cardinality(observed) = 3
    /\ Cardinality(speaker_ids) = 2
    /\ \E s \in speaker_ids : Cardinality(GendersObserved(s)) = 2
    /\ ag_result.error # NoError

=============================================================================
